---- MODULE Spec2Model ----
(***************************************************************************)
(* Model of dualjoy (src/dualjoy.c): two DB9 joysticks on a RP2040, each   *)
(* exposed as a USB HID joystick.  The state is the set of file-scope and  *)
(* function-static variables of dualjoy.c, the free-running 32-bit         *)
(* microsecond counter, the USB bus state that tud_mounted() and           *)
(* tud_suspended() report, and the position of main().                     *)
(*                                                                         *)
(* Encodings.  TLC's integers are 32-bit signed, so a uint32_t time value  *)
(* is kept as the pair <<hi, lo>> of its 16-bit halves and all arithmetic  *)
(* on it is done modulo 2^32 on the halves.  A uint32_t used as a bit mask *)
(* (pin_states, changes, the J?_MASK constants) is kept as the set of the  *)
(* positions of its 1 bits: & is \cap, | is \cup, ^ is the symmetric       *)
(* difference.                                                             *)
(***************************************************************************)
EXTENDS Integers, Sequences, FiniteSets, TLC

\* ------------------------------------------------------------ bounds
\* Iterations of "while (!tud_mounted())" a behaviour runs.
MaxWait == 1
\* Iterations of "while (1)" a behaviour runs; an idle run counts as one.
MaxTicks == 4
\* Iterations of "while (1)" before the inputs settle, where they are made to.
MaxUnsettled == 2
MaxSettle == 5
\* Iterations of "while (1)" where every bus event can arrive.
MaxLedTicks == 3

\* ------------------------------------------------- uint32_t arithmetic
W16 == 2^16

U32(n) == <<n \div W16, n % W16>>

ZERO == <<0, 0>>

u32add(a, b) ==
  LET s == a[2] + b[2]
  IN  <<(a[1] + b[1] + (s \div W16)) % W16, s % W16>>

u32sub(a, b) ==
  LET borrow == IF a[2] < b[2] THEN 1 ELSE 0
  IN  <<(a[1] - b[1] - borrow + W16) % W16, (a[2] - b[2] + W16) % W16>>

u32gt(a, b) == a[1] > b[1] \/ (a[1] = b[1] /\ a[2] > b[2])

u32or1(a) == <<a[1], IF a[2] % 2 = 0 THEN a[2] + 1 ELSE a[2]>>

\* ------------------------------------------------------ the constants
BLINK_OFF == 0
BLINK_NOT_MOUNTED == 250000
BLINK_SUSPENDED == 2500000
DEBOUNCE_TIMEOUT_US == 20000
EVENT_FLASH_US == 30000
BLINK_FAST_US == 50000
MAX_DELAY_US == BLINK_SUSPENDED

J1_UP == 5
J1_DOWN == 4
J1_LEFT == 3
J1_RIGHT == 2
J1_BTN == 27
J2_UP == 9
J2_DOWN == 8
J2_LEFT == 7
J2_RIGHT == 6
J2_BTN == 26

J1_MASK == {J1_UP, J1_DOWN, J1_LEFT, J1_RIGHT, J1_BTN}
J2_MASK == {J2_UP, J2_DOWN, J2_LEFT, J2_RIGHT, J2_BTN}
PIN_MASK == J1_MASK \cup J2_MASK

UP == 0
DOWN == 1
LEFT == 2
RIGHT == 3
BTN == 4
PIN_NUM == 5
TOTAL_PIN_NUM == PIN_NUM * 2

JOYSTICK_REPORT_ID == 4
JOYSTICK2_REPORT_ID == 5

\* inputMasks[k] is a one-bit mask; index 0..9 as in the C array.
inputMasks ==
  [k \in 0..(TOTAL_PIN_NUM - 1) |->
     CASE k = 0 -> {J1_UP}   [] k = 1 -> {J1_DOWN} [] k = 2 -> {J1_LEFT}
       [] k = 3 -> {J1_RIGHT} [] k = 4 -> {J1_BTN}
       [] k = 5 -> {J2_UP}   [] k = 6 -> {J2_DOWN} [] k = 7 -> {J2_LEFT}
       [] k = 8 -> {J2_RIGHT} [] k = 9 -> {J2_BTN}]

\* gpio2pin with the entries of joystick 2 written without "PIN_NUM +".
gpio2pin_shared ==
  [g \in 0..31 |->
     CASE g \in {J1_UP, J2_UP} -> UP [] g \in {J1_DOWN, J2_DOWN} -> DOWN
       [] g \in {J1_LEFT, J2_LEFT} -> LEFT [] g \in {J1_RIGHT, J2_RIGHT} -> RIGHT
       [] g \in {J1_BTN, J2_BTN} -> BTN
       [] OTHER -> 0]

\* gpio2pin[32]: designated initialisers, every other entry is 0.
gpio2pin ==
  [g \in 0..31 |->
     CASE g = J1_UP -> UP [] g = J1_DOWN -> DOWN [] g = J1_LEFT -> LEFT
       [] g = J1_RIGHT -> RIGHT [] g = J1_BTN -> BTN
       [] g = J2_UP -> PIN_NUM + UP [] g = J2_DOWN -> PIN_NUM + DOWN
       [] g = J2_LEFT -> PIN_NUM + LEFT [] g = J2_RIGHT -> PIN_NUM + RIGHT
       [] g = J2_BTN -> PIN_NUM + BTN
       [] OTHER -> 0]

VARIABLES
  now,               \* time_us_32(): the free-running microsecond counter
  pin_states,        \* debounced lines, bit set = pressed
  pin_timeouts,      \* per line: lock deadline, 0 = never committed
  last_r1, last_r2,  \* send_states: cached candidate reports
  sent_r1, sent_r2,  \* send_states: last report the transport accepted
  last_states,       \* send_states: pin_states at the last rebuild
  blink_interval_us, blink_timeout_us, led_state,
  next_us,           \* led_blinking_task: next toggle
  mounted, suspended,\* what tud_mounted() / tud_suspended() return
  pc,                \* position of main()
  pins,              \* update_states_task: its sample, {} once it has returned
  sends,             \* the tud_hid_n_report calls of the update_states_task that
                     \* has just run, <<>> once the loop has moved on
  host,              \* per HID instance: payload of the last accepted report
  pending,           \* per HID instance: the report whose last send failed and
                     \* whether it failed once (1) or more often (2) in a row,
                     \* or NoPending
  since,             \* per line: microseconds since its last commit (saturating)
  lock,              \* per line: length in microseconds of the lock its last
                     \* commit armed (deadline minus clock at the commit)
  glitch,            \* per line: "suppressed" after a raw change was refused,
                     \* "dropped" once the lock is over and raw has returned,
                     \* "none" else; "off" when not recorded
  frozen,            \* on: the inputs have settled and the transport accepts;
                     \* gpio: the value gpio_get_all() returns from then on
  flash,             \* the event flash in progress: on, the end of its window
                     \* (due), blink_interval_us and blink_timeout_us when it
                     \* began (interval, timeout), and whether a bus callback
                     \* has run since (cb)
  switched,          \* the last blink mode a bus callback selected: the clock
                     \* at the callback (at), the interval it set, and
                     \* whether led_blinking_task has toggled the level since
  probe,             \* a call of time_after_us and of reached on their own:
                     \* the clock at the start (at0), the delay asked for
                     \* (delta), the deadline (d), the time passed (e) and the
                     \* answer of reached (out); or a call of
                     \* fast_log2_of_pow2 on its own: the argument (x), the
                     \* product, the table index and the value returned (out)
  waits, ticks       \* iterations of the first and of the second loop so far

vars == <<now, pin_states, pin_timeouts, last_r1, last_r2, sent_r1, sent_r2,
          last_states, blink_interval_us, blink_timeout_us, led_state, next_us,
          mounted, suspended, pc, pins, sends, host, pending, since, lock, glitch,
          frozen, flash, switched, probe, waits, ticks>>

joyVars == <<pin_states, pin_timeouts, last_r1, last_r2, sent_r1, sent_r2,
             last_states, pins, sends, host, pending, lock, glitch>>
envVars == <<mounted, suspended, frozen>>
ledVars == <<blink_interval_us, blink_timeout_us, led_state, next_us>>

\* ------------------------------------------------------- bit helpers
\* a ^ b on masks.
Xor(a, b) == (a \ b) \cup (b \ a)

\* changes & -changes: the mask of the least significant 1 bit.
LowestBit(m) == {CHOOSE i \in m : \A j \in m : i <= j}

\* x << n on a uint32_t, modulo 2^32.
RECURSIVE u32shl(_, _)
u32shl(a, n) == IF n = 0 THEN a ELSE u32shl(u32add(a, a), n - 1)

\* 0x077CB531 = 0x077C * 2^16 + 0xB531
deBruijnSequence == <<1916, 46385>>

\* lookupTable with its last two entries exchanged.
lookupTable_swapped ==
  <<0, 1, 28, 2, 29, 14, 24, 3, 30, 22, 20, 15, 25, 17, 4, 8,
    31, 27, 13, 23, 21, 19, 16, 7, 26, 12, 18, 6, 11, 5, 9, 10>>

lookupTable ==
  <<0, 1, 28, 2, 29, 14, 24, 3, 30, 22, 20, 15, 25, 17, 4, 8,
    31, 27, 13, 23, 21, 19, 16, 7, 26, 12, 18, 6, 11, 5, 10, 9>>

\* deBruijnSequence << i for every bit position i.
deBruijnShifted == [i \in 0..31 |-> u32shl(deBruijnSequence, i)]

\* x * deBruijnSequence modulo 2^32, x given as a mask: the sum of
\* deBruijnSequence << i over the 1 bits of x.
RECURSIVE MulDeBruijn(_)
MulDeBruijn(x) ==
  IF x = {} THEN ZERO
  ELSE LET i == CHOOSE k \in x : TRUE
       IN  u32add(deBruijnShifted[i], MulDeBruijn(x \ {i}))

\* lookupTable[(x * deBruijnSequence) >> 27]; bits 27..31 are hi >> 11.
fast_log2_of_pow2(x) == lookupTable[(MulDeBruijn(x)[1] \div 2^11) + 1]

\* ------------------------------------------------------------- clock
\* reached with the comparison turned round: true while the deadline is ahead.
reached_ahead(t, clk) == t = ZERO \/ ~u32gt(u32sub(t, clk), U32(MAX_DELAY_US))

\* reached without the comparison: only an unset deadline counts as passed.
reached_never(t, clk) == t = ZERO

\* reached as a plain comparison of the two counter values.
reached_plain(t, clk) == t = ZERO \/ u32gt(clk, t)

\* reached without the test for the unset deadline.
reached_armedOnly(t, clk) == u32gt(u32sub(t, clk), U32(MAX_DELAY_US))

reached(t, clk) == t = ZERO \/ u32gt(u32sub(t, clk), U32(MAX_DELAY_US))

\* time_after_us without "| 1".
time_after_us_noOr(us, clk) ==
  u32add(clk, U32(IF us > MAX_DELAY_US THEN MAX_DELAY_US ELSE us))

time_after_us(us, clk) ==
  u32or1(u32add(clk, U32(IF us > MAX_DELAY_US THEN MAX_DELAY_US ELSE us)))

\* --------------------------------------------------------- direction
\* states2direction with the two vertical branches swapped: down wins over up.
states2direction_downFirst(ps, base) ==
  IF ps \cap inputMasks[base + DOWN] # {} THEN
       IF ps \cap inputMasks[base + RIGHT] # {} THEN 4
       ELSE IF ps \cap inputMasks[base + LEFT] # {} THEN 6
       ELSE 5
  ELSE IF ps \cap inputMasks[base + UP] # {} THEN
       IF ps \cap inputMasks[base + RIGHT] # {} THEN 2
       ELSE IF ps \cap inputMasks[base + LEFT] # {} THEN 8
       ELSE 1
  ELSE IF ps \cap inputMasks[base + RIGHT] # {} THEN 3
  ELSE IF ps \cap inputMasks[base + LEFT] # {} THEN 7
  ELSE 0

\* mask is &inputMasks[base]; ps is pin_states.
states2direction(ps, base) ==
  IF ps \cap inputMasks[base + UP] # {} THEN
       IF ps \cap inputMasks[base + RIGHT] # {} THEN 2
       ELSE IF ps \cap inputMasks[base + LEFT] # {} THEN 8
       ELSE 1
  ELSE IF ps \cap inputMasks[base + DOWN] # {} THEN
       IF ps \cap inputMasks[base + RIGHT] # {} THEN 4
       ELSE IF ps \cap inputMasks[base + LEFT] # {} THEN 6
       ELSE 5
  ELSE IF ps \cap inputMasks[base + RIGHT] # {} THEN 3
  ELSE IF ps \cap inputMasks[base + LEFT] # {} THEN 7
  ELSE 0

\* ---------------------------------------------------------------- LED
\* The indicator's three file-scope variables as one record.
Led == [state |-> led_state, interval |-> blink_interval_us,
        timeout |-> blink_timeout_us]

\* led_flash that leaves blink_interval_us alone.
led_flash_keepInterval(l, clk) ==
  [state |-> ~l.state, interval |-> l.interval,
   timeout |-> time_after_us(EVENT_FLASH_US, clk)]

led_flash(l, clk) ==
  [state |-> ~l.state, interval |-> BLINK_OFF,
   timeout |-> time_after_us(EVENT_FLASH_US, clk)]

\* led_set_blink_mode without the branch for BLINK_OFF.
led_set_blink_mode_keepLevel(l, interval) ==
  [state |-> l.state, interval |-> interval, timeout |-> ZERO]

led_set_blink_mode(l, interval) ==
  [state |-> IF interval = BLINK_OFF THEN FALSE ELSE l.state,
   interval |-> interval, timeout |-> ZERO]

\* led_blink_fast_until that drops its argument: no deadline is armed.
led_blink_fast_forever(l, timeout) ==
  [state |-> l.state, interval |-> BLINK_FAST_US, timeout |-> ZERO]

led_blink_fast_until(l, timeout) ==
  [state |-> l.state, interval |-> BLINK_FAST_US, timeout |-> timeout]

\* ------------------------------------------------------------ reports
REPORT_EQUAL(a, b) == a.direction = b.direction /\ a.buttons = b.buttons

\* The two assignments to last_r<n> in send_states.
\* BuildReport with the button test on the wrong mask: inputMasks[base] (up)
\* instead of inputMasks[base + BTN].
BuildReport_upAsButton(ps, base) ==
  [direction |-> states2direction(ps, base),
   buttons |-> IF ps \cap inputMasks[base] # {} THEN 1 ELSE 0]

BuildReport(ps, base) ==
  [direction |-> states2direction(ps, base),
   buttons |-> IF ps \cap inputMasks[base + BTN] # {} THEN 1 ELSE 0]

\* SendBlock without the comparison: the report is sent on every run.
SendBlock_always(inst, id, sent, last, ok, l, clk) ==
  IF ok THEN
    [sent |-> last, led |-> led_flash(l, clk),
     calls |-> <<[instance |-> inst, report_id |-> id, report |-> last,
                  ok |-> TRUE]>>]
  ELSE
    [sent |-> sent, led |-> l,
     calls |-> <<[instance |-> inst, report_id |-> id, report |-> last,
                  ok |-> FALSE]>>]

\* SendBlock with REPORT_COPY after the if: the cache moves on a failure too.
SendBlock_copyOnFail(inst, id, sent, last, ok, l, clk) ==
  IF ~REPORT_EQUAL(sent, last) THEN
    [sent |-> last, led |-> IF ok THEN led_flash(l, clk) ELSE l,
     calls |-> <<[instance |-> inst, report_id |-> id, report |-> last,
                  ok |-> ok]>>]
  ELSE [sent |-> sent, led |-> l, calls |-> <<>>]

\* One "if (!REPORT_EQUAL(sent, last)) { ... }" block of send_states.  ok is the
\* value tud_hid_n_report would return.  Yields the new sent_r<n>, the
\* indicator and the calls made.
SendBlock(inst, id, sent, last, ok, l, clk) ==
  IF ~REPORT_EQUAL(sent, last) THEN
    IF ok THEN
      [sent |-> [direction |-> last.direction, buttons |-> last.buttons],
       led |-> led_flash(l, clk),
       calls |-> <<[instance |-> inst, report_id |-> id, report |-> last,
                    ok |-> TRUE]>>]
    ELSE
      [sent |-> sent, led |-> l,
       calls |-> <<[instance |-> inst, report_id |-> id, report |-> last,
                    ok |-> FALSE]>>]
  ELSE [sent |-> sent, led |-> l, calls |-> <<>>]

\* Rebuild that looks at the bits of the other joystick.
Rebuild_otherMask(ps, mask, base, last) ==
  IF Xor(last_states, ps) \cap (PIN_MASK \ mask) # {}
  THEN BuildReport(ps, base) ELSE last

\* Rebuild of the cached candidates, send_states lines 197-209.
Rebuild(ps, mask, base, last) ==
  IF Xor(last_states, ps) # {} /\ Xor(last_states, ps) \cap mask # {}
  THEN BuildReport(ps, base) ELSE last

\* send_states with the sends inside "if (changes)": nothing is sent in a run
\* in which no debounced line changed.
send_states_onChange(ps, ok1, ok2, l, clk) ==
  LET r1 == Rebuild(ps, J1_MASK, 0, last_r1)
      r2 == Rebuild(ps, J2_MASK, PIN_NUM, last_r2)
      go == Xor(last_states, ps) # {}
      b1 == IF go THEN SendBlock(0, JOYSTICK_REPORT_ID, sent_r1, r1, ok1, l, clk)
            ELSE [sent |-> sent_r1, led |-> l, calls |-> <<>>]
      b2 == IF go
            THEN SendBlock(1, JOYSTICK2_REPORT_ID, sent_r2, r2, ok2, b1.led, clk)
            ELSE [sent |-> sent_r2, led |-> l, calls |-> <<>>]
  IN  [last_r1 |-> r1, last_r2 |-> r2,
       sent_r1 |-> b1.sent, sent_r2 |-> b2.sent,
       last_states |-> ps,
       led |-> b2.led, calls |-> b1.calls \o b2.calls]

\* send_states with a return in the failure branch of joystick 1: joystick 2
\* is not looked at in a run in which the send of joystick 1 failed.
send_states_returnOnFail(ps, ok1, ok2, l, clk) ==
  LET r1 == Rebuild(ps, J1_MASK, 0, last_r1)
      r2 == Rebuild(ps, J2_MASK, PIN_NUM, last_r2)
      b1 == SendBlock(0, JOYSTICK_REPORT_ID, sent_r1, r1, ok1, l, clk)
      b2 == IF b1.calls # <<>> /\ ~ok1
            THEN [sent |-> sent_r2, led |-> b1.led, calls |-> <<>>]
            ELSE SendBlock(1, JOYSTICK2_REPORT_ID, sent_r2, r2, ok2, b1.led, clk)
  IN  [last_r1 |-> r1, last_r2 |-> r2,
       sent_r1 |-> b1.sent, sent_r2 |-> b2.sent,
       last_states |-> ps,
       led |-> b2.led, calls |-> b1.calls \o b2.calls]

\* send_states() run with pin_states = ps at clock clk.
send_states(ps, ok1, ok2, l, clk) ==
  LET r1 == Rebuild(ps, J1_MASK, 0, last_r1)
      r2 == Rebuild(ps, J2_MASK, PIN_NUM, last_r2)
      b1 == SendBlock(0, JOYSTICK_REPORT_ID, sent_r1, r1, ok1, l, clk)
      b2 == SendBlock(1, JOYSTICK2_REPORT_ID, sent_r2, r2, ok2, b1.led, clk)
  IN  [last_r1 |-> r1, last_r2 |-> r2,
       sent_r1 |-> b1.sent, sent_r2 |-> b2.sent,
       last_states |-> ps,
       led |-> b2.led, calls |-> b1.calls \o b2.calls]

\* ----------------------------------------------------------- debounce
\* The body of the while loop of update_states_task for the bit in mask.
DebounceBit(st, mask, clk) ==
  LET i == fast_log2_of_pow2(mask)
  IN  IF reached(st.timeouts[gpio2pin[i]], clk)
      THEN [states |-> Xor(st.states, mask),
            timeouts |-> [st.timeouts EXCEPT
                            ![gpio2pin[i]] = time_after_us(DEBOUNCE_TIMEOUT_US, clk)]]
      ELSE st

\* while (changes) { ... }: from the least significant changed bit upwards.
RECURSIVE WhileChanges(_, _, _)
WhileChanges(st, changes, clk) ==
  IF changes = {} THEN st
  ELSE LET mask == LowestBit(changes)
       IN  WhileChanges(DebounceBit(st, mask, clk), changes \ mask, clk)

\* The loop as an edge latch: a change that was refused stays in changes until
\* its lock is over, whatever the line reads by then.
DebounceLoop_latched(st, changes, clk) ==
  WhileChanges(st, changes \cup {g \in PIN_MASK : glitch[gpio2pin[g]] = "suppressed"},
               clk)

\* The loop of update_states_task over changes = pins ^ pin_states.
DebounceLoop(st, changes, clk) == WhileChanges(st, changes, clk)

\* ------------------------------------------------------ blinking task
\* led_blinking_task() at clock clk; next is its static next_us.
led_blinking_task(l, next, clk) ==
  IF l.timeout # ZERO /\ reached(l.timeout, clk)
  THEN [led |-> led_set_blink_mode(l, BLINK_OFF), next_us |-> next]
  ELSE IF l.interval = BLINK_OFF THEN [led |-> l, next_us |-> next]
  ELSE IF ~reached(next, clk) THEN [led |-> l, next_us |-> next]
  ELSE [led |-> [l EXCEPT !.state = ~l.state],
        next_us |-> time_after_us(l.interval, clk)]

\* ------------------------------------------------ USB device callbacks
tud_mount_cb(l, clk) == led_blink_fast_until(l, time_after_us(1000 * 1000, clk))

\* tud_umount_cb that writes blink_interval_us only.
tud_umount_cb_keepDeadline(l) == [l EXCEPT !.interval = BLINK_NOT_MOUNTED]

tud_umount_cb(l) == led_set_blink_mode(l, BLINK_NOT_MOUNTED)

tud_suspend_cb(l) == led_set_blink_mode(l, BLINK_SUSPENDED)

\* tud_resume_cb without the test of tud_mounted().
tud_resume_cb_unmounted(l, clk, isMounted) ==
  led_set_blink_mode(l, BLINK_NOT_MOUNTED)

tud_resume_cb(l, clk, isMounted) ==
  IF isMounted THEN led_blink_fast_until(l, time_after_us(500 * 1000, clk))
  ELSE led_set_blink_mode(l, BLINK_NOT_MOUNTED)

\* ------------------------------------------------------------- inputs
\* Bus events tud_task() can deliver; "none" is a call that delivers nothing.
Events == {"none", "mount"}

\* Lines with a switch that is operated: left of joystick 1, up of joystick 2.
Wired == {J1_LEFT, J2_UP}

\* Values of gpio_get_all() when the lines in W are operated: a pressed line
\* reads low, the others are pulled up.
GpioSamples(W) == {(0..31) \ p : p \in SUBSET W}

\* Time one iteration of the main loop takes when not suspended:
\* sleep_ms(1) plus the run time of the tasks, in microseconds.
TickDurations == {1000, 20001}

\* The same where the tasks run long: two or three iterations outlast a
\* debounce lock.
SettleDurations == {10000, 20001}

\* Time one iteration of the loop that waits for the mount takes.
WaitDurations == {1000}

\* Length of a run of main loop iterations in which nothing happens.
IdleDurations == {u32sub(ZERO, U32(2000000))}

\* ------------------------------------------------------------ ghosts
SinceCap == DEBOUNCE_TIMEOUT_US + 2

\* since after d (a uint32_t) more microseconds.
Elapsed(d) ==
  [k \in DOMAIN since |->
     IF d[1] > 0 \/ since[k] + d[2] > SinceCap THEN SinceCap
     ELSE since[k] + d[2]]

\* The line is inside the lock its last commit armed, in elapsed time.
Locked(k) == pin_timeouts[k] # ZERO /\ since[k] <= lock[k]

NoPending == [report |-> "none", n |-> 0]

\* The calls made to HID instance inst.
CallsFor(calls, inst) == SelectSeq(calls, LAMBDA c : c.instance = inst)

\* pending of instance inst after the calls of one send_states: nothing is
\* pending when no send was due or the send succeeded.
Pending(calls, inst, old) ==
  LET cs == CallsFor(calls, inst)
  IN  IF cs = <<>> \/ cs[Len(cs)].ok THEN NoPending
      ELSE [report |-> cs[Len(cs)].report,
            n |-> IF old.n < 2 THEN old.n + 1 ELSE old.n]

\* The payload instance inst's host side holds after the calls.
RECURSIVE Delivered(_, _, _)
Delivered(calls, inst, old) ==
  IF calls = <<>> THEN old
  ELSE Delivered(Tail(calls), inst,
                 IF Head(calls).instance = inst /\ Head(calls).ok
                 THEN Head(calls).report ELSE old)

\* No event flash in progress.
NoFlash == [on |-> FALSE, due |-> ZERO, interval |-> 0, timeout |-> ZERO,
            cb |-> FALSE]

\* Clock a lies after clock b, the two less than 2^31 apart.
After(a, b) == a # b /\ u32sub(a, b)[1] < 2^15

\* flash after a run of send_states that made the calls: a send that succeeded
\* starts a window; the mode it began in is kept while windows follow each
\* other with no bus callback in between.
Flashed(calls, clk) ==
  IF \E n \in 1..Len(calls) : calls[n].ok
  THEN [on |-> TRUE,
        due |-> u32or1(u32add(clk, U32(EVENT_FLASH_US))),
        interval |-> IF flash.on /\ ~flash.cb THEN flash.interval
                     ELSE blink_interval_us,
        timeout |-> IF flash.on /\ ~flash.cb THEN flash.timeout
                    ELSE blink_timeout_us,
        cb |-> FALSE]
  ELSE flash

\* No bus callback has selected a blink mode.
NoSwitch == [on |-> FALSE, at |-> ZERO, interval |-> 0, toggled |-> FALSE]

\* switched after a bus callback that left the indicator as l at clock clk.
Switched(l, clk) ==
  [on |-> TRUE, at |-> clk, interval |-> l.interval, toggled |-> FALSE]

\* led_blinking_task, which left the indicator as l, has toggled the level:
\* the level differs and no deadline was disarmed.
Toggled(l) == l.state # led_state /\ l.timeout = blink_timeout_us

\* No call of the clock functions on their own.
NoProbe == [step |-> "off", at0 |-> ZERO, delta |-> 0, d |-> ZERO, e |-> ZERO,
            out |-> FALSE]

\* --------------------------------------------------------------- Init
NoReport == [direction |-> 0, buttons |-> 0]

\* main() about to enter "while (!tud_mounted())": the statics as initialised,
\* the clock after the four sleep_ms(10) of the start-up.
StartWith(ps, at) ==
  /\ now = U32(4 * 10 * 1000)
  /\ pin_states = ps
  /\ pin_timeouts = [k \in 0..(TOTAL_PIN_NUM - 1) |-> ZERO]
  /\ last_r1 = NoReport /\ last_r2 = NoReport
  /\ sent_r1 = NoReport /\ sent_r2 = NoReport
  /\ last_states = {}
  /\ blink_interval_us = BLINK_NOT_MOUNTED
  /\ blink_timeout_us = ZERO
  /\ led_state = FALSE
  /\ next_us = ZERO
  /\ mounted = FALSE /\ suspended = FALSE
  /\ pc = at
  /\ pins = {}
  /\ sends = <<>>
  /\ host = [i \in {0, 1} |-> NoReport]
  /\ pending = [i \in {0, 1} |-> NoPending]
  /\ since = [k \in 0..(TOTAL_PIN_NUM - 1) |-> SinceCap]
  /\ lock = [k \in 0..(TOTAL_PIN_NUM - 1) |-> 0]
  /\ frozen = [on |-> FALSE, gpio |-> {}]
  /\ flash = NoFlash
  /\ switched = NoSwitch
  /\ waits = 0 /\ ticks = 0

Start == StartWith({}, "wait_tud") /\ probe = NoProbe

Init == Start /\ glitch = [k \in 0..(TOTAL_PIN_NUM - 1) |-> "off"]

\* ------------------------------------------------------------ actions
\* main() with led_blinking_task() called after update_states_task().
AfterStep_ledLast(p, isMounted) ==
  CASE p = "wait_tud" -> "wait_led"
    [] p = "wait_led" -> IF isMounted THEN "tud" ELSE "wait_tud"
    [] p = "tud" -> "update"
    [] p = "update" -> "led"
    [] p = "led" -> "sleep"
    [] p = "sleep" -> "tud"

\* main() with update_states_task() called only while the device is mounted.
AfterStep_mountedOnly(p, isMounted) ==
  CASE p = "wait_tud" -> "wait_led"
    [] p = "wait_led" -> IF isMounted THEN "tud" ELSE "wait_tud"
    [] p = "tud" -> "led"
    [] p = "led" -> IF isMounted THEN "update" ELSE "sleep"
    [] p = "update" -> "sleep"
    [] p = "sleep" -> "tud"

\* The statement main() executes after the one at p: the two loops of main().
AfterStep(p, isMounted) ==
  CASE p = "wait_tud" -> "wait_led"
    [] p = "wait_led" -> IF isMounted THEN "tud" ELSE "wait_tud"
    [] p = "tud" -> "led"
    [] p = "led" -> "update"
    [] p = "update" -> "sleep"
    [] p = "sleep" -> "tud"

SetLed(l) ==
  /\ led_state' = l.state
  /\ blink_interval_us' = l.interval
  /\ blink_timeout_us' = l.timeout

\* What tud_task() does with the event ev: the bus state changes and the
\* callback of the event runs.
Deliver(ev) ==
  CASE ev = "none" ->
         /\ UNCHANGED <<mounted, suspended, led_state, blink_interval_us,
                        blink_timeout_us, flash, switched>>
    [] ev = "mount" ->
         /\ ~mounted
         /\ mounted' = TRUE /\ UNCHANGED suspended
         /\ SetLed(tud_mount_cb(Led, now'))
         /\ flash' = [flash EXCEPT !.cb = flash.on]
         /\ switched' = Switched(tud_mount_cb(Led, now'), now')
    [] ev = "umount" ->
         /\ mounted
         /\ mounted' = FALSE /\ suspended' = FALSE
         /\ SetLed(tud_umount_cb(Led))
         /\ flash' = [flash EXCEPT !.cb = flash.on]
         /\ switched' = Switched(tud_umount_cb(Led), now')
    [] ev = "suspend" ->
         /\ ~suspended
         /\ suspended' = TRUE /\ UNCHANGED mounted
         /\ SetLed(tud_suspend_cb(Led))
         /\ flash' = [flash EXCEPT !.cb = flash.on]
         /\ switched' = Switched(tud_suspend_cb(Led), now')
    [] ev = "resume" ->
         /\ suspended
         /\ suspended' = FALSE /\ UNCHANGED mounted
         /\ SetLed(tud_resume_cb(Led, now', mounted))
         /\ flash' = [flash EXCEPT !.cb = flash.on]
         /\ switched' = Switched(tud_resume_cb(Led, now', mounted), now')

\* tud_task() in "while (!tud_mounted())"; the iteration takes d microseconds.
TudTaskWait(ev, d) ==
  /\ pc = "wait_tud"
  /\ now' = u32add(now, U32(d))
  /\ Deliver(ev)
  /\ pc' = AfterStep(pc, mounted')
  /\ since' = Elapsed(U32(d))
  /\ waits' = waits + 1
  /\ UNCHANGED <<joyVars, next_us, frozen, probe, ticks>>

\* tud_task() in "while (1)".
TudTask(ev) ==
  /\ pc = "tud"
  /\ now' = now
  /\ Deliver(ev)
  /\ pc' = AfterStep(pc, mounted')
  /\ UNCHANGED <<joyVars, next_us, frozen, probe, since, waits, ticks>>

\* led_blinking_task() in either loop, and the test of the loop it is in.
LedBlinkingTask ==
  /\ pc \in {"wait_led", "led"}
  /\ LET r == led_blinking_task(Led, next_us, now)
     IN  /\ SetLed(r.led) /\ next_us' = r.next_us
         /\ switched' = [switched EXCEPT
                           !.toggled = switched.toggled \/ Toggled(r.led)]
  /\ pc' = AfterStep(pc, mounted)
  /\ flash' = IF flash.on /\ After(now, flash.due) THEN NoFlash ELSE flash
  /\ UNCHANGED <<now, joyVars, envVars, probe, since, waits, ticks>>

\* update_states_task(): gpio is what gpio_get_all() returns, ok1 and ok2 what
\* tud_hid_n_report would return for instance 0 and 1.
UpdateStatesTask(gpio, ok1, ok2) ==
  /\ pc = "update"
  /\ \E p \in {((0..31) \ gpio) \cap PIN_MASK} :
     \E st \in {DebounceLoop([states |-> pin_states, timeouts |-> pin_timeouts],
                             Xor(p, pin_states), now)} :
     \E r \in {send_states(st.states, ok1, ok2, Led, now)} :
         /\ pins' = p
         /\ pin_states' = st.states
         /\ pin_timeouts' = st.timeouts
         /\ last_r1' = r.last_r1 /\ last_r2' = r.last_r2
         /\ sent_r1' = r.sent_r1 /\ sent_r2' = r.sent_r2
         /\ last_states' = r.last_states
         /\ SetLed(r.led)
         /\ sends' = r.calls
         /\ flash' = Flashed(r.calls, now)
         /\ host' = [i \in {0, 1} |-> Delivered(r.calls, i, host[i])]
         /\ pending' = [i \in {0, 1} |-> Pending(r.calls, i, pending[i])]
         /\ since' = [k \in DOMAIN since |->
                        IF Xor(st.states, pin_states) \cap inputMasks[k] # {}
                        THEN 0 ELSE since[k]]
         /\ lock' = [k \in DOMAIN lock |->
                       IF Xor(st.states, pin_states) \cap inputMasks[k] # {}
                       THEN u32sub(st.timeouts[k], now)[2] ELSE lock[k]]
         /\ glitch' = [k \in DOMAIN glitch |->
                         IF glitch[k] = "off" THEN "off"
                         ELSE IF Xor(st.states, pin_states) \cap inputMasks[k] # {}
                         THEN "none"
                         ELSE IF Xor(p, pin_states) \cap inputMasks[k] # {}
                         THEN "suppressed"
                         ELSE IF glitch[k] = "suppressed" /\ ~Locked(k)
                         THEN "dropped"
                         ELSE glitch[k]]
  /\ pc' = AfterStep(pc, mounted)
  /\ UNCHANGED <<now, next_us, envVars, switched, probe, waits, ticks>>

\* sleep_ms(1); if (tud_suspended()) sleep_ms(100);
Sleep(d) ==
  /\ pc = "sleep"
  /\ LET e == U32(d + (IF suspended THEN 100 * 1000 ELSE 0))
     IN  now' = u32add(now, e) /\ since' = Elapsed(e)
  /\ pc' = AfterStep(pc, mounted)
  /\ pins' = {} /\ sends' = <<>>
  /\ ticks' = ticks + 1
  /\ UNCHANGED <<pin_states, pin_timeouts, last_r1, last_r2, sent_r1, sent_r2,
                 last_states, host, pending, lock, glitch, ledVars, envVars,
                 flash, switched, probe, waits>>

\* A run of iterations of the main loop, d microseconds long in all, in which
\* tud_task() delivers nothing, the indicator is off with no deadline armed,
\* the sample equals the debounced lines and both reports are delivered:
\* every task returns without writing, only the clock moves.
IdleRun(d) ==
  /\ pc = "tud"
  /\ blink_interval_us = BLINK_OFF /\ blink_timeout_us = ZERO
  /\ REPORT_EQUAL(sent_r1, last_r1) /\ REPORT_EQUAL(sent_r2, last_r2)
  /\ last_states = pin_states
  /\ now' = u32add(now, d)
  /\ since' = Elapsed(d)
  /\ ticks' = ticks + 1
  /\ flash' = NoFlash
  /\ UNCHANGED <<joyVars, ledVars, envVars, switched, probe, pc, waits>>

\* main() with the lines in W operated and iterations that take a time in T,
\* cut off after MaxWait and MaxTicks iterations.
Main(W, T) ==
  \/ \E ev \in Events, d \in WaitDurations :
       waits < MaxWait /\ TudTaskWait(ev, d)
  \/ \E ev \in Events : TudTask(ev)
  \/ LedBlinkingTask
  \/ \E gpio \in GpioSamples(W), ok1 \in BOOLEAN, ok2 \in BOOLEAN :
       UpdateStatesTask(gpio, ok1, ok2)
  \/ \E d \in T : ticks < MaxTicks /\ Sleep(d)
  \/ \E d \in IdleDurations : ticks < MaxTicks /\ IdleRun(d)

Next == Main(Wired, TickDurations)

Spec == Init /\ [][Next]_vars

\* The same program with one line operated and the refused raw changes
\* recorded in glitch.
InitGlitch == Start /\ glitch = [k \in 0..(TOTAL_PIN_NUM - 1) |-> "none"]

NextGlitch == Main({J1_LEFT}, TickDurations)

SpecGlitch == InitGlitch /\ [][NextGlitch]_vars

\* ------------------------------------------- the direction encoder alone
\* states2direction and the button bit applied to every value of pin_states
\* (send_states, lines 201-206).
InitDir ==
  /\ \E ps \in SUBSET PIN_MASK : StartWith(ps, "encode")
  /\ probe = NoProbe
  /\ glitch = [k \in 0..(TOTAL_PIN_NUM - 1) |-> "off"]

Encode ==
  /\ pc = "encode"
  /\ last_r1' = BuildReport(pin_states, 0)
  /\ last_r2' = BuildReport(pin_states, PIN_NUM)
  /\ pc' = "encoded"
  /\ UNCHANGED <<now, pin_states, pin_timeouts, sent_r1, sent_r2, last_states,
                 pins, sends, host, pending, lock, glitch, ledVars, envVars,
                 flash, switched, probe, since, waits, ticks>>

NextDir == Encode

SpecDir == InitDir /\ [][NextDir]_vars

\* ------------------------------------------- the inputs settle at last
\* The pressed lines in a value of gpio_get_all().
Pressed(gpio) == ((0..31) \ gpio) \cap PIN_MASK

\* The reports the transport has accepted are those of the settled inputs.
Converged ==
  /\ frozen.on
  /\ sent_r1 = BuildReport(Pressed(frozen.gpio), 0) /\ host[0] = sent_r1
  /\ sent_r2 = BuildReport(Pressed(frozen.gpio), PIN_NUM) /\ host[1] = sent_r2

\* From now on gpio_get_all() returns gpio and tud_hid_n_report succeeds.
Freeze(gpio) ==
  /\ ~frozen.on
  /\ pc \in {"tud", "led", "update", "sleep"}
  /\ frozen' = [on |-> TRUE, gpio |-> gpio]
  /\ UNCHANGED <<now, joyVars, ledVars, mounted, suspended, pc, flash, switched,
                 probe,
                 since, waits, ticks>>

\* The main loop runs on: for MaxUnsettled iterations before the inputs
\* settle and for MaxSettle iterations after that.
LoopLive(W, T) ==
  \/ \E ev \in Events, d \in WaitDurations :
       waits < MaxWait /\ TudTaskWait(ev, d)
  \/ \E ev \in Events : TudTask(ev)
  \/ LedBlinkingTask
  \/ \E gpio \in GpioSamples(W), ok1 \in BOOLEAN, ok2 \in BOOLEAN :
       /\ ~frozen.on \/ (gpio = frozen.gpio /\ ok1 /\ ok2)
       /\ UpdateStatesTask(gpio, ok1, ok2)
  \/ \E d \in T :
       /\ ticks < MaxUnsettled + (IF frozen.on THEN MaxSettle ELSE 0)
       /\ Sleep(d)

NextLive ==
  \/ LoopLive(Wired, SettleDurations)
  \/ \E gpio \in GpioSamples(Wired) : Freeze(gpio)

\* The processor keeps executing main(): the loop never stops by itself.
LiveSpec ==
  Init /\ [][NextLive]_vars /\ WF_vars(LoopLive(Wired, SettleDurations))

\* ------------------------------------------- the clock functions alone
\* Values of time_us_32() at which a deadline is armed: after the start, in
\* the middle of the range, and up to the last count before the wrap.
ClockSamples ==
  {ZERO, U32(1), U32(4 * 10 * 1000), <<32767, 65535>>, <<32768, 0>>,
   u32sub(ZERO, U32(MAX_DELAY_US)), u32sub(ZERO, U32(EVENT_FLASH_US)),
   u32sub(ZERO, U32(DEBOUNCE_TIMEOUT_US)),
   u32sub(ZERO, U32(DEBOUNCE_TIMEOUT_US + 1)),
   u32sub(ZERO, U32(2)), u32sub(ZERO, U32(1))}

\* Delays asked of time_after_us: those the program uses, the horizon and
\* its neighbours, and the largest value a signed 32-bit integer holds.
DelaySamples ==
  {0, 1, DEBOUNCE_TIMEOUT_US, EVENT_FLASH_US, BLINK_FAST_US, BLINK_NOT_MOUNTED,
   500 * 1000, 1000 * 1000, MAX_DELAY_US - 1, MAX_DELAY_US, MAX_DELAY_US + 1,
   2147483647}

\* Times passed since at0 at which reached is asked about the deadline d:
\* none, around the deadline, around the horizon, and up to 2^31.
PassedSamples(d, at0) ==
  {ZERO, U32(1), u32sub(u32sub(d, at0), U32(1)), u32sub(d, at0),
   u32add(u32sub(d, at0), U32(1)), u32add(u32sub(d, at0), U32(2)),
   U32(MAX_DELAY_US), U32(MAX_DELAY_US + 1), <<32767, 65535>>, <<32768, 0>>}

InitClock ==
  /\ StartWith({}, "clock")
  /\ glitch = [k \in 0..(TOTAL_PIN_NUM - 1) |-> "off"]
  /\ \E c \in ClockSamples, us \in DelaySamples :
       probe = [step |-> "start", at0 |-> c, delta |-> us, d |-> ZERO,
                e |-> ZERO, out |-> FALSE]

\* d = time_after_us(delta) called at clock at0.
Arm ==
  /\ probe.step = "start"
  /\ probe' = [probe EXCEPT !.step = "armed",
                            !.d = time_after_us(probe.delta, probe.at0)]
  /\ UNCHANGED <<now, joyVars, ledVars, envVars, pc, flash, switched, since,
                 waits, ticks>>

\* reached(d) called e microseconds after at0; d is 0 when nothing was armed.
Ask(e) ==
  /\ probe.step \in {"start", "armed"}
  /\ probe' = [probe EXCEPT !.step = "asked", !.e = e,
                            !.out = reached(probe.d, u32add(probe.at0, e))]
  /\ UNCHANGED <<now, joyVars, ledVars, envVars, pc, flash, switched, since,
                 waits, ticks>>

NextClock ==
  \/ Arm
  \/ \E e \in PassedSamples(probe.d, probe.at0) : Ask(e)

SpecClock == InitClock /\ [][NextClock]_vars

\* ------------------------------------------ fast_log2_of_pow2 alone
\* fast_log2_of_pow2 called with each power of two a uint32_t holds.
InitLog2 ==
  /\ StartWith({}, "log2")
  /\ glitch = [k \in 0..(TOTAL_PIN_NUM - 1) |-> "off"]
  /\ \E i \in 0..31 :
       probe = [step |-> "called", x |-> {i}, product |-> ZERO, index |-> 0,
                out |-> 0]

\* x * deBruijnSequence
Multiply ==
  /\ probe.step = "called"
  /\ probe' = [probe EXCEPT !.step = "multiplied",
                            !.product = MulDeBruijn(probe.x)]
  /\ UNCHANGED <<now, joyVars, ledVars, envVars, pc, flash, switched, since,
                 waits, ticks>>

\* ... >> 27
Shift ==
  /\ probe.step = "multiplied"
  /\ probe' = [probe EXCEPT !.step = "shifted",
                            !.index = probe.product[1] \div 2^11]
  /\ UNCHANGED <<now, joyVars, ledVars, envVars, pc, flash, switched, since,
                 waits, ticks>>

\* return lookupTable[...]
Lookup ==
  /\ probe.step = "shifted"
  /\ probe' = [probe EXCEPT !.step = "returned",
                            !.out = fast_log2_of_pow2(probe.x)]
  /\ UNCHANGED <<now, joyVars, ledVars, envVars, pc, flash, switched, since,
                 waits, ticks>>

NextLog2 == Multiply \/ Shift \/ Lookup

SpecLog2 == InitLog2 /\ [][NextLog2]_vars

\* --------------------------------------------- every bus event arrives
\* The events tud_task() can deliver, each with its callback.
AllEvents == {"none", "mount", "umount", "suspend", "resume"}

\* Time an iteration of the main loop takes where the tasks run long: just
\* over the flash window, over a fast blink interval, over the settling time.
LedDurations == {30002, 300000, 1000002}

\* main() with every bus event, the left line of joystick 1 operated and a
\* transport that can refuse the report of joystick 1.
MainLed ==
  \/ \E ev \in AllEvents, d \in WaitDurations :
       waits < MaxWait /\ TudTaskWait(ev, d)
  \/ \E ev \in AllEvents : TudTask(ev)
  \/ LedBlinkingTask
  \/ \E gpio \in GpioSamples({J1_LEFT}), ok1 \in BOOLEAN :
       UpdateStatesTask(gpio, ok1, TRUE)
  \/ \E d \in LedDurations : ticks < MaxLedTicks /\ Sleep(d)

SpecLed == Init /\ [][MainLed]_vars

\* ------------------------------------ one press with all lines released
\* gpio_get_all() with every line released.
Released == 0..31

\* gpio_get_all() with some lines of one joystick pressed.
SceneSamples ==
  {(0..31) \ P : P \in (SUBSET J1_MASK \cup SUBSET J2_MASK) \ {{}}}

\* main() with every line released until the lines of frozen.gpio go low in
\* the same sample and stay low, and a transport that accepts every report.
SceneLoop(T) ==
  \/ \E ev \in Events, d \in WaitDurations :
       waits < MaxWait /\ TudTaskWait(ev, d)
  \/ \E ev \in Events : TudTask(ev)
  \/ LedBlinkingTask
  \/ UpdateStatesTask(IF frozen.on THEN frozen.gpio ELSE Released, TRUE, TRUE)
  \/ \E d \in T : ticks < MaxTicks /\ Sleep(d)

NextScene ==
  \/ SceneLoop(TickDurations)
  \/ \E gpio \in SceneSamples : Freeze(gpio)

SpecScene == Init /\ [][NextScene]_vars

\* ================================================================ claims
\* The bit of line k in a mask.
Bit(m, k) == m \cap inputMasks[k] # {}

Lines == 0..(TOTAL_PIN_NUM - 1)

\* C1: a line's bit in pin_states changes only when the line was never
\* committed or the lock armed by its last commit is over in elapsed time, and
\* every lock is at least DEBOUNCE_TIMEOUT_US long: two commits of a line are
\* more than DEBOUNCE_TIMEOUT_US apart, whatever the samples in between.
C1_NoCommitWhileLocked ==
  [][\A k \in Lines :
       Bit(pin_states', k) # Bit(pin_states, k) =>
         /\ pin_timeouts[k] = ZERO \/ ~Locked(k)
         /\ pin_timeouts[k] # ZERO => since[k] > DEBOUNCE_TIMEOUT_US
         /\ lock'[k] >= DEBOUNCE_TIMEOUT_US
         /\ pin_timeouts'[k] = time_after_us(DEBOUNCE_TIMEOUT_US, now)]_vars

\* C1 witness: update_states_task has just refused a raw change of a line that
\* is inside its lock, exactly DEBOUNCE_TIMEOUT_US + 1 after the commit.
C1_Witness ==
  /\ pc = "sleep"
  /\ \E k \in Lines :
       /\ Bit(pins, k) # Bit(pin_states, k)
       /\ Locked(k)
       /\ since[k] = DEBOUNCE_TIMEOUT_US + 1

\* C2 as claimed: in update_states_task, a line whose sample differs from its
\* debounced value and whose lock is unset or over (any elapsed time longer
\* than the lock) is committed in that run.
C2_CommitsOnceUnlocked ==
  [][pc = "update" =>
       \A k \in Lines :
         (Bit(pins', k) # Bit(pin_states, k) /\ ~Locked(k)) =>
           /\ Bit(pin_states', k) = Bit(pins', k)
           /\ pin_timeouts'[k] = time_after_us(DEBOUNCE_TIMEOUT_US, now)]_vars

\* The lines of joystick 1 and of joystick 2.
J1_Lines == 0..(PIN_NUM - 1)
J2_Lines == PIN_NUM..(TOTAL_PIN_NUM - 1)

\* A call without its result.
Offer(c) == [instance |-> c.instance, report_id |-> c.report_id,
             report |-> c.report]

Offers(calls, inst) ==
  [n \in 1..Len(CallsFor(calls, inst)) |-> Offer(CallsFor(calls, inst)[n])]

\* The report of a joystick built afresh from the debounced lines ps.
Candidate(ps, base) ==
  [direction |->
     IF Bit(ps, base + UP) THEN
          (IF Bit(ps, base + RIGHT) THEN 2 ELSE IF Bit(ps, base + LEFT) THEN 8 ELSE 1)
     ELSE IF Bit(ps, base + DOWN) THEN
          (IF Bit(ps, base + RIGHT) THEN 4 ELSE IF Bit(ps, base + LEFT) THEN 6 ELSE 5)
     ELSE IF Bit(ps, base + RIGHT) THEN 3
     ELSE IF Bit(ps, base + LEFT) THEN 7
     ELSE 0,
   buttons |-> IF Bit(ps, base + BTN) THEN 1 ELSE 0]

\* C3: level debounce.  In a run of update_states_task a bit that changes
\* takes the value sampled in that run; a line whose sample equals its
\* debounced value is left alone (bit and lock deadline), whatever was refused
\* before; and a joystick all of whose lines sample as debounced and whose
\* report is delivered gets no send.
C3_LevelDebounce ==
  [][pc = "update" =>
       /\ \A k \in Lines :
            /\ Bit(pin_states', k) # Bit(pin_states, k) =>
                 Bit(pin_states', k) = Bit(pins', k)
            /\ Bit(pins', k) = Bit(pin_states, k) =>
                 /\ Bit(pin_states', k) = Bit(pin_states, k)
                 /\ pin_timeouts'[k] = pin_timeouts[k]
       /\ (\A k \in J1_Lines : Bit(pins', k) = Bit(pin_states, k))
            /\ REPORT_EQUAL(sent_r1, last_r1) => CallsFor(sends', 0) = <<>>
       /\ (\A k \in J2_Lines : Bit(pins', k) = Bit(pin_states, k))
            /\ REPORT_EQUAL(sent_r2, last_r2) => CallsFor(sends', 1) = <<>>]_vars

\* C3 witness: a raw change of a line was refused inside the lock, the lock is
\* over, the sample is back at the debounced value, and the run of
\* update_states_task that saw this committed nothing and sent nothing.
C3_Witness ==
  /\ pc = "sleep"
  /\ sends = <<>>
  /\ \E k \in Lines :
       /\ glitch[k] = "dropped"
       /\ Bit(pins, k) = Bit(pin_states, k)
       /\ ~Locked(k)
       /\ since[k] > 0

\* C5: a run of send_states calls tud_hid_n_report for a joystick exactly once,
\* on its instance with its report id and the report built from the debounced
\* lines, if that report differs from the last report sent for it, and not at
\* all if it is equal.
C5_OneSendPerChange ==
  [][pc = "update" =>
       /\ Offers(sends', 0) =
            IF Candidate(pin_states', 0) # sent_r1
            THEN <<[instance |-> 0, report_id |-> JOYSTICK_REPORT_ID,
                    report |-> Candidate(pin_states', 0)]>>
            ELSE <<>>
       /\ Offers(sends', 1) =
            IF Candidate(pin_states', PIN_NUM) # sent_r2
            THEN <<[instance |-> 1, report_id |-> JOYSTICK2_REPORT_ID,
                    report |-> Candidate(pin_states', PIN_NUM)]>>
            ELSE <<>>
       /\ Len(sends') = Len(CallsFor(sends', 0)) + Len(CallsFor(sends', 1))]_vars

\* C5 witness: a report of joystick 1 other than the initial one was
\* delivered, and a later run of update_states_task made no call at all.
C5_Witness ==
  /\ pc = "sleep"
  /\ sends = <<>>
  /\ host[0] # NoReport
  /\ sent_r1 = host[0]
  /\ pins = pin_states

\* The calls of the run that succeeded.
OkCalls(calls) == SelectSeq(calls, LAMBDA c : c.ok)

\* C6: sent_r1 and sent_r2 always equal the payload of the last successful
\* send of their instance (the initial value before any); a run of
\* send_states in which the send of a joystick failed keeps its sent_r, and a
\* run in which no send succeeded leaves led_state, blink_interval_us and
\* blink_timeout_us as they were.
C6_FailedSendChangesNothing ==
  /\ [](sent_r1 = host[0] /\ sent_r2 = host[1])
  /\ [][pc = "update" =>
          /\ (\E n \in 1..Len(sends') : sends'[n].instance = 0 /\ ~sends'[n].ok)
               => sent_r1' = sent_r1
          /\ (\E n \in 1..Len(sends') : sends'[n].instance = 1 /\ ~sends'[n].ok)
               => sent_r2' = sent_r2
          /\ OkCalls(sends') = <<>> =>
               UNCHANGED <<led_state, blink_interval_us, blink_timeout_us>>]_vars

\* C6 witness: the only send of a run failed while an earlier report of that
\* joystick had been delivered.
C6_Witness ==
  /\ pc = "sleep"
  /\ Len(sends) = 1 /\ ~sends[1].ok /\ sends[1].instance = 0
  /\ sent_r1 # NoReport
  /\ sent_r1 # sends[1].report

\* C7: while the report of a joystick is pending after a failed send, every
\* run of send_states in which the joystick's debounced lines did not change
\* offers that same report again, once, however often it failed before.
C7_RetryLaw ==
  [][pc = "update" =>
       /\ (pending[0] # NoPending
            /\ \A k \in J1_Lines : Bit(pin_states', k) = Bit(pin_states, k))
          => Offers(sends', 0) =
               <<[instance |-> 0, report_id |-> JOYSTICK_REPORT_ID,
                  report |-> pending[0].report]>>
       /\ (pending[1] # NoPending
            /\ \A k \in J2_Lines : Bit(pin_states', k) = Bit(pin_states, k))
          => Offers(sends', 1) =
               <<[instance |-> 1, report_id |-> JOYSTICK2_REPORT_ID,
                  report |-> pending[1].report]>>]_vars

\* C7 witness: a report has just been offered again, its lines unchanged, and
\* has failed for at least the second time in a row.
C7_Witness ==
  /\ pc = "sleep"
  /\ pending[1].n = 2
  /\ \E n \in 1..Len(sends) :
       ~sends[n].ok /\ sends[n].instance = 1 /\ sends[n].report = pending[1].report
  /\ \A k \in J2_Lines : since[k] > 0

\* C8 as claimed: the first run of update_states_task attempts a send for
\* each joystick, whatever the lines are.
C8_FirstTickSendsBoth ==
  (pc = "sleep" /\ ticks = 0) =>
     CallsFor(sends, 0) # <<>> /\ CallsFor(sends, 1) # <<>>

\* The priority table of the direction encoder, indexed by
\* 8 * up + 4 * down + 2 * left + right + 1.
DirTable == <<0, 3, 7, 3, 5, 4, 6, 4, 1, 2, 8, 2, 1, 2, 8, 2>>

TableCode(ps, base) ==
  DirTable[(IF Bit(ps, base + UP) THEN 8 ELSE 0)
           + (IF Bit(ps, base + DOWN) THEN 4 ELSE 0)
           + (IF Bit(ps, base + LEFT) THEN 2 ELSE 0)
           + (IF Bit(ps, base + RIGHT) THEN 1 ELSE 0) + 1]

\* C4: for every value of pin_states, states2direction returns for each
\* joystick the code the priority table gives for the joystick's own four
\* direction bits, whatever the button bits and the other joystick's bits are.
C4_PriorityTable ==
  pc = "encoded" =>
    /\ last_r1.direction = TableCode(pin_states, 0)
    /\ last_r2.direction = TableCode(pin_states, PIN_NUM)

\* C4 witness: all four directions of joystick 1 asserted at once give NE,
\* while joystick 2 with down, left and its button gives SW.
C4_Witness ==
  /\ pc = "encoded"
  /\ pin_states = {J1_UP, J1_DOWN, J1_LEFT, J1_RIGHT, J2_DOWN, J2_LEFT, J2_BTN}
  /\ last_r1.direction = 2
  /\ last_r2.direction = 6

\* C9: once the inputs have settled and the transport accepts, the reports
\* accepted for both joysticks become, and from then on stay, the reports of
\* the settled inputs, and no further send is made.
C9_Converges == [](frozen.on => <>[](Converged /\ sends = <<>>))

\* C9 witness: the reports converged to a joystick 2 pushed up, only after
\* more iterations than ran before the inputs settled.
C9_Witness ==
  /\ Converged
  /\ sends = <<>>
  /\ ticks = MaxUnsettled + MaxSettle
  /\ sent_r2.direction = 1

\* Some call of the run to instance inst succeeded.
OwnOk(calls, inst) ==
  \E n \in 1..Len(calls) : calls[n].instance = inst /\ calls[n].ok

\* What a run of send_states does for one joystick, computed from nothing but
\* the joystick's own debounced lines before (old) and after (new), its own
\* caches last and sent, and the result ok of its own send.
Own(inst, id, mask, base, old, new, last, sent, ok) ==
  LET cand == IF old \cap mask # new \cap mask
              THEN BuildReport(new \cap mask, base) ELSE last
  IN  [last   |-> cand,
       offers |-> IF cand # sent
                  THEN <<[instance |-> inst, report_id |-> id, report |-> cand]>>
                  ELSE <<>>,
       sent   |-> IF cand # sent /\ ok THEN cand ELSE sent]

\* In a run of update_states_task each joystick's candidate, offer and cache
\* are the function Own of its own data.
OwnLaw ==
  /\ LET o == Own(0, JOYSTICK_REPORT_ID, J1_MASK, 0, pin_states, pin_states',
                  last_r1, sent_r1, OwnOk(sends', 0))
     IN  last_r1' = o.last /\ Offers(sends', 0) = o.offers /\ sent_r1' = o.sent
  /\ LET o == Own(1, JOYSTICK2_REPORT_ID, J2_MASK, PIN_NUM, pin_states,
                  pin_states', last_r2, sent_r2, OwnOk(sends', 1))
     IN  last_r2' = o.last /\ Offers(sends', 1) = o.offers /\ sent_r2' = o.sent

\* The debounced lines changed in this run, and only lines in mask.
ConfinedTo(mask) ==
  /\ Xor(pin_states', pin_states) # {}
  /\ Xor(pin_states', pin_states) \subseteq mask

\* C10 as claimed: the joysticks are independent within a run, and a change
\* confined to the lines of one joystick leaves last_r and sent_r of the other
\* unchanged.
C10_OtherCacheUntouched ==
  [][pc = "update" =>
       /\ OwnLaw
       /\ ConfinedTo(J1_MASK) => last_r2' = last_r2 /\ sent_r2' = sent_r2
       /\ ConfinedTo(J2_MASK) => last_r1' = last_r1 /\ sent_r1' = sent_r1]_vars

\* C10: the joysticks are independent within a run: for each, whether a send
\* is attempted, the report offered and the new last_r and sent_r are a
\* function of its own lines, its own caches and the result of its own send;
\* a change confined to the lines of one joystick leaves last_r of the other
\* unchanged, and its sent_r too unless a report of the other joystick that was
\* pending after a failed send is retried with success in that run.
C10_DevicesIndependent ==
  [][pc = "update" =>
       /\ OwnLaw
       /\ ConfinedTo(J1_MASK) =>
            /\ last_r2' = last_r2
            /\ sent_r2' = sent_r2
                 \/ (pending[1] # NoPending /\ OwnOk(sends', 1)
                       /\ sent_r2' = pending[1].report)
       /\ ConfinedTo(J2_MASK) =>
            /\ last_r1' = last_r1
            /\ sent_r1' = sent_r1
                 \/ (pending[0] # NoPending /\ OwnOk(sends', 0)
                       /\ sent_r1' = pending[0].report)]_vars

\* C10 witness: in one run a line of joystick 1 changed and its send failed,
\* while the pending report of joystick 2, whose lines did not change, was
\* retried and delivered.
C10_Witness ==
  /\ pc = "sleep"
  /\ Len(sends) = 2
  /\ sends[1].instance = 0 /\ ~sends[1].ok
  /\ sends[2].instance = 1 /\ sends[2].ok
  /\ \E k \in J1_Lines : since[k] = 0
  /\ \A k \in J2_Lines : since[k] > 0

\* The joystick whose lines are pressed in the scene, and its report.
SceneDev == IF Pressed(frozen.gpio) \subseteq J1_MASK THEN 0 ELSE 1

SceneReport ==
  Candidate(Pressed(frozen.gpio), IF SceneDev = 0 THEN 0 ELSE PIN_NUM)

\* C11: with all lines released before, once lines of one joystick go low in
\* the same sample and stay low and sends succeed, tud_hid_n_report is called
\* exactly once, for that joystick, with the direction code of its pressed
\* direction lines and its button bit, and never for the other joystick.
C11_PressSendsOnce ==
  [][(pc = "update" /\ frozen.on) =>
       /\ sends' =
            IF host[SceneDev] = SceneReport THEN <<>>
            ELSE <<[instance |-> SceneDev,
                    report_id |-> IF SceneDev = 0 THEN JOYSTICK_REPORT_ID
                                  ELSE JOYSTICK2_REPORT_ID,
                    report |-> SceneReport, ok |-> TRUE]>>
       /\ host'[SceneDev] = SceneReport
       /\ host'[1 - SceneDev] = NoReport]_vars

\* C11 witness: left and button of joystick 1 are held, the host has the
\* report {W, 1}, and a later run of update_states_task made no call.
C11_Witness ==
  /\ pc = "sleep"
  /\ frozen.on
  /\ Pressed(frozen.gpio) = {J1_LEFT, J1_BTN}
  /\ host[0] = [direction |-> 7, buttons |-> 1]
  /\ host[1] = NoReport
  /\ sends = <<>>

\* C11 second scenario as a state: up and right of joystick 2 are held and
\* the single call of the run carried {NE, 0}.
C11_WitnessNE ==
  /\ pc = "sleep"
  /\ frozen.on
  /\ Pressed(frozen.gpio) = {J2_UP, J2_RIGHT}
  /\ sends = <<[instance |-> 1, report_id |-> JOYSTICK2_REPORT_ID,
                report |-> [direction |-> 2, buttons |-> 0], ok |-> TRUE]>>

\* The step is a run of led_blinking_task.
LedRun == pc \in {"wait_led", "led"} /\ pc' # pc

\* The step is a run of tud_task that called a callback.
CallbackRun == mounted' # mounted \/ suspended' # suspended

\* The step is a run of update_states_task in which a send succeeded.
FlashRun == pc = "update" /\ OkCalls(sends') # <<>>

\* The indicator after the step is off: no blinking, level off, no deadline.
LedSwitchedOff ==
  /\ blink_interval_us' = BLINK_OFF
  /\ led_state' = FALSE
  /\ blink_timeout_us' = ZERO

\* C12 as claimed: the first run of led_blinking_task after the window of an
\* event flash has elapsed, with no bus callback since the flash began, leaves
\* blink_interval_us and blink_timeout_us as they were when the flash began.
C12_FlashKeepsBaseline ==
  [][(LedRun /\ flash.on /\ ~flash.cb /\ After(now, flash.due)) =>
       /\ blink_interval_us' = flash.interval
       /\ blink_timeout_us' = flash.timeout]_vars

\* C13 as claimed: the first run of led_blinking_task after the window of an
\* event flash has elapsed reverts the flash, whatever bus callbacks ran
\* during the window: the deadline of the flash is no longer armed, and the
\* run does not leave the indicator lit as it found it.
C13_FlashReverted ==
  [][(LedRun /\ flash.on /\ After(now, flash.due)) =>
       /\ ~(led_state /\ led_state')
       /\ blink_timeout_us' # flash.due]_vars

C15_ResumeRestores ==
  /\ [][(suspended /\ ~suspended' /\ mounted' = mounted) =>
          IF mounted
          THEN /\ blink_interval_us' = BLINK_FAST_US
               /\ u32sub(blink_timeout_us', now') \in
                    {U32(500 * 1000), U32(500 * 1000 + 1)}
          ELSE /\ blink_interval_us' = BLINK_NOT_MOUNTED
               /\ blink_timeout_us' = ZERO]_vars
  /\ [](mounted => blink_interval_us # BLINK_NOT_MOUNTED)

\* C15 witness: tud_task has just delivered the resume to the mounted device,
\* after at least one iteration spent suspended.
C15_Witness ==
  /\ pc = "led"
  /\ mounted /\ ~suspended
  /\ ticks > 0
  /\ blink_interval_us = BLINK_FAST_US
  /\ u32sub(blink_timeout_us, now) \in {U32(500 * 1000), U32(500 * 1000 + 1)}

\* C16: the indicator is in the not-mounted blink with no deadline armed when
\* main() enters its first loop and after every tud_umount_cb, whatever was
\* armed before; and a run of led_blinking_task leaves that mode alone.
C16_UnmountSlowBlink ==
  /\ []((pc = "wait_tud" /\ waits = 0) =>
          blink_interval_us = BLINK_NOT_MOUNTED /\ blink_timeout_us = ZERO)
  /\ [][(mounted /\ ~mounted') =>
          blink_interval_us' = BLINK_NOT_MOUNTED /\ blink_timeout_us' = ZERO]_vars
  /\ [][(LedRun /\ blink_interval_us = BLINK_NOT_MOUNTED
           /\ blink_timeout_us = ZERO) =>
          blink_interval_us' = BLINK_NOT_MOUNTED /\ blink_timeout_us' = ZERO]_vars

\* C16 witness: tud_task has just called tud_umount_cb while the deadline of
\* an event flash was still armed and the indicator lit.
C16_Witness ==
  /\ pc = "led"
  /\ ~mounted
  /\ flash.on /\ flash.cb
  /\ led_state
  /\ blink_interval_us = BLINK_NOT_MOUNTED /\ blink_timeout_us = ZERO

\* C20 as claimed: in an iteration of the main loop led_blinking_task runs
\* after update_states_task and before the next tud_task.
C20_LedAfterSend ==
  [][/\ pc = "update" => pc' = "led"
     /\ pc = "led" => pc' \in {"sleep", "tud"}]_vars

\* C20: an iteration of the main loop runs tud_task, led_blinking_task,
\* update_states_task and the sleep, in that order; the sleep leaves the
\* indicator alone, so a flash armed by a send is evaluated for the first
\* time in the next iteration, after the sleep and the next tud_task.
C20_LoopOrder ==
  [][/\ pc = "tud" => pc' = "led"
     /\ pc = "led" => pc' = "update"
     /\ pc = "update" => pc' = "sleep"
     /\ pc = "sleep" =>
          /\ pc' = "tud"
          /\ UNCHANGED <<blink_interval_us, blink_timeout_us, led_state>>
     /\ FlashRun =>
          /\ blink_interval_us' = BLINK_OFF
          /\ blink_timeout_us' = flash'.due]_vars

\* C20 witness: tud_task is about to run in the iteration after a send
\* succeeded, and the flash the send armed has not been evaluated yet.
C20_Witness ==
  /\ pc = "tud"
  /\ ticks > 0
  /\ flash.on /\ ~flash.cb
  /\ blink_interval_us = BLINK_OFF
  /\ blink_timeout_us = flash.due

\* C17 as claimed: reached is false for the unset deadline 0 at every clock
\* value.
C17_UnsetNeverReached ==
  (probe.step = "asked" /\ probe.d = ZERO) => ~probe.out

\* C17: reached is true for the unset deadline 0 at every clock value: an
\* unset deadline always counts as passed.
C17_UnsetAlwaysReached ==
  (probe.step = "asked" /\ probe.d = ZERO) => probe.out

\* C17 witness: reached(0) was asked at clock 0, where 0 - now is not above
\* MAX_DELAY_US, and answered true.
C17_Witness ==
  /\ probe.step = "asked"
  /\ probe.d = ZERO
  /\ u32add(probe.at0, probe.e) = ZERO
  /\ probe.out

\* The delay time_after_us adds after clamping.
Clamped(us) == IF us > MAX_DELAY_US THEN MAX_DELAY_US ELSE us

\* C18: the value time_after_us(delta) returns at clock now is never 0, has
\* its low bit set, and lies min(delta, MAX_DELAY_US) after now modulo 2^32 if
\* that sum is odd and one microsecond later if it is even.
C18_DeadlineNeverUnset ==
  probe.step = "armed" =>
    /\ probe.d # ZERO
    /\ probe.d[2] % 2 = 1
    /\ u32sub(probe.d, probe.at0) =
         IF (probe.at0[2] + Clamped(probe.delta)) % 2 = 1
         THEN U32(Clamped(probe.delta))
         ELSE U32(Clamped(probe.delta) + 1)

\* C18 witness: now + delta is 0 modulo 2^32 and the deadline returned is 1.
C18_Witness ==
  /\ probe.step = "armed"
  /\ probe.delta > 0
  /\ u32add(probe.at0, U32(probe.delta)) = ZERO
  /\ probe.d = U32(1)

\* C19: for a deadline d = time_after_us(delta) armed at clock now0 with
\* delta below MAX_DELAY_US, reached(d) asked e microseconds later, e up to
\* 2^31, is true exactly if e is more than d - now0: false up to and
\* including the deadline and true after it, also where now0 + delta or
\* now0 + e wraps past 2^32.
C19_ComparisonAcrossWrap ==
  (/\ probe.step = "asked" /\ probe.d # ZERO
   /\ probe.delta < MAX_DELAY_US
   /\ ~u32gt(probe.e, <<32768, 0>>)) =>
    probe.out = u32gt(probe.e, u32sub(probe.d, probe.at0))

\* C19 witness: the deadline was armed 20000 before the wrap and lies after
\* it; one microsecond after the deadline reached answers true.
C19_Witness ==
  /\ probe.step = "asked"
  /\ probe.delta = EVENT_FLASH_US
  /\ probe.at0 = u32sub(ZERO, U32(DEBOUNCE_TIMEOUT_US))
  /\ u32gt(probe.at0, probe.d)
  /\ probe.e = u32add(u32sub(probe.d, probe.at0), U32(1))
  /\ probe.out

\* C21: while the deadline of an event flash is armed and no bus callback has
\* run since the flash began, blinking is off and the deadline armed is that
\* of the flash; a run of led_blinking_task before the deadline has passed
\* leaves the level, the blink mode, the deadline and next_us as they are.
C21_FlashPrecedence ==
  /\ []((flash.on /\ ~flash.cb) =>
          blink_interval_us = BLINK_OFF /\ blink_timeout_us = flash.due)
  /\ [][(LedRun /\ flash.on /\ ~flash.cb /\ ~After(now, flash.due)) =>
          UNCHANGED <<led_state, blink_interval_us, blink_timeout_us,
                      next_us>>]_vars

\* C21 witness: led_blinking_task has just run inside the window of a flash
\* that began while the fast blink was on and due to toggle, and the level is
\* still the one the flash set.
C21_Witness ==
  /\ pc = "update"
  /\ flash.on /\ ~flash.cb /\ ~After(now, flash.due)
  /\ flash.interval = BLINK_FAST_US
  /\ After(now, next_us)
  /\ blink_timeout_us = flash.due

\* C22: a run of update_states_task in which at least one report is delivered
\* leaves the indicator level different from the level it had before, also
\* when the reports of both joysticks are delivered.
C22_FlashVisible ==
  [][FlashRun => led_state' # led_state]_vars

\* C23: after a bus callback has selected a blink mode with interval I, the
\* first run of led_blinking_task at least I after the callback toggles the
\* level unless an earlier run has, as long as the mode is still in force (no
\* further callback, no flash, its deadline not passed), whatever next_us was
\* at the callback; so the first toggle comes no later than I plus one
\* iteration after the callback, and the fast blink of tud_resume_cb toggles
\* before its 500 ms are over.
C23_ToggleWithinInterval ==
  [][(/\ LedRun
      /\ switched.on /\ ~switched.toggled
      /\ blink_interval_us = switched.interval
      /\ blink_interval_us # BLINK_OFF
      /\ ~(blink_timeout_us # ZERO /\ reached(blink_timeout_us, now))
      /\ ~After(u32add(switched.at, U32(switched.interval)), now)) =>
       switched'.toggled]_vars

\* C24: reached(time_after_us(delta)) asked at the clock value at which the
\* deadline was made is false, for every clock value and every delta from 1
\* to MAX_DELAY_US inclusive.
C24_FreshDeadlineNotReached ==
  (/\ probe.step = "asked" /\ probe.d # ZERO /\ probe.e = ZERO
   /\ probe.delta >= 1 /\ probe.delta <= MAX_DELAY_US) => ~probe.out

\* C25: at the start and after every run of send_states the cached candidates
\* last_r1 and last_r2 are the reports built afresh from pin_states
\* (direction = states2direction of the joystick's four direction bits,
\* buttons = its button bit), and last_states is pin_states.
C25_CacheIsFresh ==
  /\ last_r1 = BuildReport(pin_states, 0)
  /\ last_r2 = BuildReport(pin_states, PIN_NUM)
  /\ last_states = pin_states

\* C25 witness: send_states has just run after a commit of joystick 2's up
\* line alone, while joystick 1's left line is held: last_r1 was not rebuilt
\* and is not the neutral report.
C25_Witness ==
  /\ pc = "sleep"
  /\ since[gpio2pin[J2_UP]] = 0
  /\ since[gpio2pin[J1_LEFT]] > 0
  /\ J1_LEFT \in pin_states
  /\ last_r1 # NoReport

\* C26: pin_states has no bit outside PIN_MASK; gpio2pin maps the ten
\* monitored bits one-to-one into 0..9, each to the line whose mask is that
\* bit; a step changes a monitored bit of pin_states only in
\* update_states_task, only where the sample differs, and then arms that
\* line's entry of pin_timeouts; the entry of every line whose bit did not
\* change is left as it is.
C26_CommitFrame ==
  /\ [](pin_states \subseteq PIN_MASK)
  /\ [](DOMAIN pin_timeouts = 0..(TOTAL_PIN_NUM - 1))
  /\ [](\A g \in PIN_MASK, h \in PIN_MASK :
          /\ gpio2pin[g] \in 0..(TOTAL_PIN_NUM - 1)
          /\ inputMasks[gpio2pin[g]] = {g}
          /\ gpio2pin[g] = gpio2pin[h] => g = h)
  /\ [][\A g \in PIN_MASK :
          IF (g \in pin_states') # (g \in pin_states)
          THEN /\ pc = "update"
               /\ (g \in pins') # (g \in pin_states)
               /\ pin_timeouts'[gpio2pin[g]] =
                    time_after_us(DEBOUNCE_TIMEOUT_US, now)
          ELSE pin_timeouts'[gpio2pin[g]] = pin_timeouts[gpio2pin[g]]]_vars

\* C26 witness: update_states_task has just committed joystick 1's left line
\* while joystick 2's up line, committed in an earlier iteration, is held: the
\* up line's bit and its older deadline are in place.
C26_Witness ==
  /\ pc = "sleep"
  /\ since[gpio2pin[J1_LEFT]] = 0
  /\ since[gpio2pin[J2_UP]] > 0
  /\ J2_UP \in pin_states
  /\ pin_timeouts[gpio2pin[J2_UP]] # ZERO
  /\ pin_timeouts[gpio2pin[J2_UP]] # pin_timeouts[gpio2pin[J1_LEFT]]

\* main() is in its first loop, "while (!tud_mounted())".
Waiting == pc \in {"wait_tud", "wait_led"}

\* C27: while main() is in its first loop nothing has been sampled, committed
\* or sent, and a step there leaves the lines and the reports alone; the
\* first loop is left only with the device mounted, and never entered again;
\* from then on every iteration runs tud_task, led_blinking_task,
\* update_states_task and the sleep, whether the device is mounted or
\* suspended.
C27_SamplingAfterFirstMount ==
  /\ [](Waiting =>
          /\ ticks = 0
          /\ pins = {} /\ sends = <<>>
          /\ pin_states = {} /\ last_states = {}
          /\ \A k \in DOMAIN pin_timeouts : pin_timeouts[k] = ZERO
          /\ \A i \in DOMAIN host : host[i] = NoReport /\ pending[i] = NoPending)
  /\ [](pc = "wait_tud" => ~mounted)
  /\ [][Waiting =>
          /\ pc' \in {"wait_tud", "wait_led"} \/ (pc' = "tud" /\ mounted)
          /\ UNCHANGED joyVars]_vars
  /\ [][~Waiting =>
          /\ pc = "tud" => pc' = "led"
          /\ pc = "led" => pc' = "update"
          /\ pc = "update" => (pc' = "sleep" /\ last_states' = pin_states')
          /\ pc = "sleep" => pc' = "tud"]_vars

\* C27 witness: update_states_task has just sampled a pressed line and
\* attempted a send in an iteration that began after an unmount.
C27_Witness ==
  /\ pc = "sleep"
  /\ ~mounted
  /\ ticks > 0
  /\ pins # {}
  /\ sends # <<>>

\* C28: whenever blinking is off and no deadline is armed the indicator level
\* is off.
C28_IdleIndicatorOff ==
  (blink_interval_us = BLINK_OFF /\ blink_timeout_us = ZERO) => ~led_state

\* C28 witness: a report was delivered, the window of its flash is over, and
\* led_blinking_task has left blinking off, no deadline armed and the level
\* off.
C28_Witness ==
  /\ pc = "update"
  /\ ticks > 0
  /\ host[0] # NoReport
  /\ ~flash.on
  /\ blink_interval_us = BLINK_OFF /\ blink_timeout_us = ZERO
  /\ ~led_state

\* The table index fast_log2_of_pow2 computes for 2^i.
IndexOf(i) == MulDeBruijn({i})[1] \div 2^11

\* C29: fast_log2_of_pow2(2^i) returns i for every i in 0..31; the index it
\* looks up is the top 5 bits of 2^i * 0x077CB531 modulo 2^32, lies in 0..31
\* and holds i in lookupTable; and the indexes of different powers of two
\* differ.
C29_Log2OfPowerOfTwo ==
  /\ probe.step = "returned" => probe.x = {probe.out}
  /\ probe.step \in {"shifted", "returned"} =>
       /\ probe.index \in 0..31
       /\ probe.product = u32shl(deBruijnSequence, CHOOSE i \in probe.x : TRUE)
       /\ probe.index = IndexOf(CHOOSE i \in probe.x : TRUE)
       /\ probe.x = {lookupTable[probe.index + 1]}
  /\ \A i \in 0..31, j \in 0..31 : i # j => IndexOf(i) # IndexOf(j)

\* C29 witness: fast_log2_of_pow2(2^31) has returned 31, looked up at index
\* 16 (2^31 * 0x077CB531 is 2^31 modulo 2^32).
C29_Witness ==
  /\ probe.step = "returned"
  /\ probe.x = {31}
  /\ probe.product = <<32768, 0>>
  /\ probe.index = 16
  /\ probe.out = 31

====
